---- MODULE Spec2Model ----
(***************************************************************************)
(* The anti-repetition selection policy of scheduler.py: get_next_item     *)
(* with its persisted rolling history (run_history.json), and the pipeline *)
(* that calls it: run_job of main.py with its stages (script, TTS,         *)
(* captions, video build, Reel upload, cleanup) over the files of assets/  *)
(* and temp/.                                                              *)
(*                                                                         *)
(* The history file is modelled by its mode (missing, a regular file, a    *)
(* file that open() cannot read) and its text, a sequence of JSON tokens.  *)
(* json.dump and json.load are modelled as a serialiser and a parser over  *)
(* those tokens, for the fragment of JSON the store holds here: a document *)
(* that is an object whose members are arrays of scalars, strings or null, *)
(* or a top-level array or scalar (nested objects do not occur).           *)
(* Whitespace and indentation are not tokens.                              *)
(*                                                                         *)
(* Item identifiers are strings, as at the call site main.py:56; item      *)
(* types are the three the docstring names.  Writing the store succeeds.   *)
(***************************************************************************)
EXTENDS Integers, Sequences, FiniteSets, TLC

VARIABLES
    file,    \* HISTORY_FILE on disk: [mode, text]
    last,    \* observation of the most recent get_next_item call
    calls,   \* number of get_next_item calls made so far
    trace,   \* items returned by the successful calls, in order; in SpecCleanup
             \* the identifiers perform_cleanup was called with (observer)
    disk,    \* the files of assets/ and temp/: path -> "absent", "file", "locked"
    run,     \* observation of the most recent pipeline operation
    procs    \* get_next_item invocations in progress: their position and locals

vars == <<file, last, calls, trace, disk, run, procs>>

----------------------------------------------------------------------------
(* Program constants *)

CATEGORY_COOLDOWN == 5
ASSET_COOLDOWN == 10

(* Bounds of the model *)

MaxCalls == 2          \* get_next_item calls per behaviour of Spec
MaxItems == 2          \* longest candidate list over {A, B} passed to a call in Spec
MaxFromEmptyCalls == 6 \* calls per behaviour of SpecFromEmpty
MaxCooldownCalls == 4  \* further calls per behaviour of SpecCooldown
SeedGap == 2           \* SpecCooldown starts this many calls before the window fills

----------------------------------------------------------------------------
(* Values *)

ItemTypes == {"category", "video", "music"}

Items == {"A", "B"}

Punct == {"{", "}", "[", "]", ",", ":"}

Range(s) == {s[i] : i \in 1..Len(s)}

SeqsUpTo(S, n) == UNION {[1..k -> S] : k \in 0..n}

(* Python values read from / written to the store *)
PyList(l) == [kind |-> "list", s |-> "", l |-> l]
PyStr(s) == [kind |-> "str", s |-> s, l |-> <<>>]
PyNone == [kind |-> "null", s |-> "", l |-> <<>>]

(* A dict is an insertion-ordered sequence of [k, v] members. *)
DictHas(d, k) == \E i \in 1..Len(d) : d[i].k = k

DictGet(d, k, default) ==
    IF DictHas(d, k)
    THEN d[CHOOSE i \in 1..Len(d) : d[i].k = k].v
    ELSE default

DictSet(d, k, v) ==
    IF DictHas(d, k)
    THEN [i \in 1..Len(d) |-> IF d[i].k = k THEN [k |-> k, v |-> v] ELSE d[i]]
    ELSE Append(d, [k |-> k, v |-> v])

----------------------------------------------------------------------------
(* json.dump(history, f, indent=4): the token text of a dict *)

RECURSIVE EncodeItems(_)
EncodeItems(l) ==
    IF l = <<>> THEN <<>>
    ELSE IF Len(l) = 1 THEN <<l[1]>>
    ELSE <<l[1], ",">> \o EncodeItems(Tail(l))

EncodeValue(v) ==
    CASE v.kind = "list" -> <<"[">> \o EncodeItems(v.l) \o <<"]">>
      [] v.kind = "str"  -> <<v.s>>
      [] OTHER           -> <<"null">>

RECURSIVE EncodeMembers(_)
EncodeMembers(d) ==
    IF d = <<>> THEN <<>>
    ELSE <<d[1].k, ":">> \o EncodeValue(d[1].v)
         \o (IF Len(d) = 1 THEN <<>> ELSE <<",">> \o EncodeMembers(Tail(d)))

json_dump(d) == <<"{">> \o EncodeMembers(d) \o <<"}">>

----------------------------------------------------------------------------
(* json.load(f): parse the token text; ok = FALSE is a JSONDecodeError *)

ParseFail == [ok |-> FALSE, kind |-> "error", d |-> <<>>, v |-> PyNone, next |-> 0]

IsScalar(t) == t \notin Punct

\* elements of an array, from position i (a scalar is expected there)
RECURSIVE ParseElems(_, _, _)
ParseElems(toks, i, acc) ==
    IF i + 1 > Len(toks) \/ ~IsScalar(toks[i]) THEN ParseFail
    ELSE IF toks[i + 1] = "]"
         THEN [ParseFail EXCEPT !.ok = TRUE, !.kind = "list",
                                !.v = PyList(Append(acc, toks[i])), !.next = i + 2]
    ELSE IF toks[i + 1] = ","
         THEN ParseElems(toks, i + 2, Append(acc, toks[i]))
    ELSE ParseFail

\* a member value at position i: an array, null or a string
ParseValue(toks, i) ==
    IF i > Len(toks) THEN ParseFail
    ELSE IF toks[i] = "["
         THEN IF i + 1 <= Len(toks) /\ toks[i + 1] = "]"
              THEN [ParseFail EXCEPT !.ok = TRUE, !.kind = "list",
                                     !.v = PyList(<<>>), !.next = i + 2]
              ELSE ParseElems(toks, i + 1, <<>>)
    ELSE IF ~IsScalar(toks[i]) THEN ParseFail
    ELSE IF toks[i] = "null"
         THEN [ParseFail EXCEPT !.ok = TRUE, !.kind = "null", !.v = PyNone, !.next = i + 1]
    ELSE [ParseFail EXCEPT !.ok = TRUE, !.kind = "str", !.v = PyStr(toks[i]), !.next = i + 1]

\* members of an object, from position i (a key is expected there)
RECURSIVE ParseMembers(_, _, _)
ParseMembers(toks, i, acc) ==
    IF i + 1 > Len(toks) \/ ~IsScalar(toks[i]) \/ toks[i] = "null" \/ toks[i + 1] # ":"
    THEN ParseFail
    ELSE LET val == ParseValue(toks, i + 2)
             d == DictSet(acc, toks[i], val.v)
         IN  IF ~val.ok \/ val.next > Len(toks) THEN ParseFail
             ELSE IF toks[val.next] = "}"
                  THEN [ParseFail EXCEPT !.ok = TRUE, !.kind = "dict",
                                         !.d = d, !.next = val.next + 1]
             ELSE IF toks[val.next] = ","
                  THEN ParseMembers(toks, val.next + 1, d)
             ELSE ParseFail

json_load(toks) ==
    LET doc == IF toks = <<>> THEN ParseFail
               ELSE IF toks[1] = "{"
                    THEN IF Len(toks) >= 2 /\ toks[2] = "}"
                         THEN [ParseFail EXCEPT !.ok = TRUE, !.kind = "dict", !.next = 3]
                         ELSE ParseMembers(toks, 2, <<>>)
               ELSE ParseValue(toks, 1)
    IN  \* text after the document is "Extra data", a JSONDecodeError
        IF doc.ok /\ doc.next = Len(toks) + 1 THEN doc ELSE ParseFail

----------------------------------------------------------------------------
(* scheduler.py *)

FreshHistory ==
    << [k |-> "categories", v |-> PyList(<<>>)],
       [k |-> "videos", v |-> PyList(<<>>)],
       [k |-> "music", v |-> PyList(<<>>)] >>

\* mutant: the existence test is inverted
_load_history_inverted(f) ==
    [exc |-> "none", kind |-> "dict", d |-> FreshHistory]

\* mutant: the except clause does not catch JSONDecodeError
_load_history_decode_error_uncaught(f) ==
    IF f.mode = "missing"
    THEN [exc |-> "none", kind |-> "dict", d |-> FreshHistory]
    ELSE IF f.mode = "unreadable"
    THEN [exc |-> "PermissionError", kind |-> "error", d |-> <<>>]
    ELSE LET doc == json_load(f.text)
         IN  IF doc.ok
             THEN [exc |-> "none", kind |-> doc.kind, d |-> doc.d]
             ELSE [exc |-> "JSONDecodeError", kind |-> "error", d |-> <<>>]

\* The loaded object, or the exception that open() raises and the except
\* clause (JSONDecodeError, FileNotFoundError) does not catch.
_load_history(f) ==
    IF f.mode = "missing"
    THEN [exc |-> "none", kind |-> "dict", d |-> FreshHistory]
    ELSE IF f.mode = "unreadable"
    THEN [exc |-> "PermissionError", kind |-> "error", d |-> <<>>]
    ELSE LET doc == json_load(f.text)
         IN  IF doc.ok
             THEN [exc |-> "none", kind |-> doc.kind, d |-> doc.d]
             ELSE [exc |-> "none", kind |-> "dict", d |-> FreshHistory]

\* mutant: the file is opened for writing and nothing is dumped into it
_save_history_nothing_dumped(history) == [mode |-> "file", text |-> <<>>]

_save_history(history) == [mode |-> "file", text |-> json_dump(history)]

\* f"{item_type}s": "categorys", "videos", "musics"
history_key(item_type) == item_type \o "s"

cooldown_size(item_type) ==
    IF item_type = "category" THEN CATEGORY_COOLDOWN ELSE ASSET_COOLDOWN

\* mutant: an item is held back only when it was the latest pick
not_recent_latest_only(all_items, recent_items) ==
    SelectSeq(all_items,
              LAMBDA item : recent_items = <<>> \/ item # recent_items[Len(recent_items)])

\* [item for item in all_items if item not in recent_items]
not_recent(all_items, recent_items) ==
    SelectSeq(all_items, LAMBDA item : item \notin Range(recent_items))

\* mutants: the fallback draws from the history; no cooldown filter; no fallback
available_items_from_recent(all_items, recent_items) ==
    IF not_recent(all_items, recent_items) = <<>>
    THEN recent_items
    ELSE not_recent(all_items, recent_items)

available_items_unfiltered(all_items, recent_items) == all_items

available_items_no_fallback(all_items, recent_items) ==
    not_recent(all_items, recent_items)

\* mutant: the fallback leaves out the most recent pick when it can
available_items_fallback_skips_latest(all_items, recent_items) ==
    LET others == SelectSeq(all_items,
                            LAMBDA item : item # recent_items[Len(recent_items)])
    IN  IF not_recent(all_items, recent_items) # <<>>
        THEN not_recent(all_items, recent_items)
        ELSE IF others # <<>> THEN others ELSE all_items

\* available_items after the fallback of lines 64-66
available_items(all_items, recent_items) ==
    IF not_recent(all_items, recent_items) = <<>>
    THEN all_items
    ELSE not_recent(all_items, recent_items)

\* mutants: slice one short; no truncation; truncation from the back
updated_items_one_short(recent_items, selected_item, size) ==
    LET appended == Append(recent_items, selected_item)
    IN  IF Len(appended) > size
        THEN SubSeq(appended, Len(appended) - size + 2, Len(appended))
        ELSE appended

updated_items_unbounded(recent_items, selected_item, size) ==
    Append(recent_items, selected_item)

updated_items_keep_oldest(recent_items, selected_item, size) ==
    LET appended == Append(recent_items, selected_item)
    IN  IF Len(appended) > size THEN SubSeq(appended, 1, size) ELSE appended

\* recent_items.append(selected_item), then recent_items[-cooldown_size:]
updated_items(recent_items, selected_item, size) ==
    LET appended == Append(recent_items, selected_item)
    IN  IF Len(appended) > size
        THEN SubSeq(appended, Len(appended) - size + 1, Len(appended))
        ELSE appended

\* mutant: only the category of the call is persisted
updated_history_this_key_only(history, key, items) ==
    << [k |-> key, v |-> PyList(items)] >>

\* history[history_key] = ...: the dict that goes to _save_history
updated_history(history, key, items) == DictSet(history, key, PyList(items))

NoCall == [op |-> "none", item_type |-> "", all_items |-> <<>>, outcome |-> "",
           selected |-> "", recent |-> <<>>, fallback |-> FALSE,
           drawn_from |-> <<>>, saved |-> <<>>,
           before |-> [mode |-> "missing", text |-> <<>>]]

\* the call ended in exception exc before anything was written
Raised(item_type, all_items, exc) ==
    /\ last' = [NoCall EXCEPT !.op = "get_next_item", !.item_type = item_type,
                              !.all_items = all_items, !.outcome = exc,
                              !.before = file]
    /\ file' = file

\* mutant: the guard of line 50 is missing
no_items_unchecked(all_items) == FALSE

\* not all_items
no_items(all_items) == all_items = <<>>

\* history is the value of _load_history() at line 53: the object read from
\* the store as it is when the call is made.  The callers pass
\* _load_history(file), so that it is evaluated once for all the inputs tried
\* in a state; it is not used when line 51 raises.
get_next_item(item_type, all_items, history) ==
    IF no_items(all_items)
    THEN Raised(item_type, all_items, "ValueError")
    ELSE LET key == history_key(item_type)
             recent == DictGet(history.d, key, PyList(<<>>))
             available == available_items(all_items, recent.l)
         IN  IF history.exc # "none"
             THEN Raised(item_type, all_items, history.exc)
             ELSE IF history.kind # "dict"    \* history.get on a list, str or None
             THEN Raised(item_type, all_items, "AttributeError")
             ELSE IF recent.kind = "null"     \* item not in None
             THEN Raised(item_type, all_items, "TypeError")
             ELSE IF recent.kind # "list"     \* a str has no append
             THEN Raised(item_type, all_items, "AttributeError")
             ELSE IF available = <<>>         \* random.choice of an empty list
             THEN Raised(item_type, all_items, "IndexError")
             ELSE \E selected_item \in Range(available) :
                  LET saved == updated_history(history.d, key,
                                   updated_items(recent.l, selected_item,
                                                 cooldown_size(item_type)))
                  IN  /\ file' = _save_history(saved)
                      /\ last' = [op |-> "get_next_item", item_type |-> item_type,
                                  all_items |-> all_items, outcome |-> "ok",
                                  selected |-> selected_item, recent |-> recent.l,
                                  fallback |-> (not_recent(all_items, recent.l) = <<>>),
                                  drawn_from |-> available,
                                  saved |-> saved,
                                  before |-> file]

----------------------------------------------------------------------------
(* Stores a run can start from *)

Rep(s, n) == [i \in 1..n |-> s[((i - 1) % Len(s)) + 1]]

\* what the calls leave in a store that started missing: the three keys of
\* the fresh history, and the keys of the item types selected so far
History(categorys, videos, musics) ==
    LET h1 == DictSet(FreshHistory, "videos", PyList(videos))
        h2 == IF categorys = <<>> THEN h1 ELSE DictSet(h1, "categorys", PyList(categorys))
    IN  IF musics = <<>> THEN h2 ELSE DictSet(h2, "musics", PyList(musics))

WrittenFiles ==
    { _save_history(h) : h \in
        { History(<<"A">>, <<>>, <<>>),
          History(<<"A", "B">>, <<"A", "B">>, <<"B">>),
          History(<<"D", "A", "B", "C">>, Rep(<<"A", "B", "C">>, ASSET_COOLDOWN - 1), <<>>),
          History(Rep(<<"A", "B", "C">>, CATEGORY_COOLDOWN),
                  Rep(<<"B", "A">>, ASSET_COOLDOWN), <<"D", "A">>),
          History(Rep(<<"C", "B">>, CATEGORY_COOLDOWN), <<>>,
                  Rep(<<"A", "B", "C">>, ASSET_COOLDOWN)) } }

CorruptTexts ==
    { <<>>,
      <<"{", "categorys", ":", "[", "A", ",">>,
      <<"{", "categorys", ":", "[", "A", "]", "}", "}">>,
      <<"A", "B">> }

MisshapenTexts ==
    { <<"[", "A", "]">>,
      <<"null">>,
      <<"{", "categorys", ":", "null", ",", "videos", ":", "A", ",",
        "musics", ":", "[", "A", "]", "}">> }

InitFiles ==
    {[mode |-> "missing", text |-> <<>>]}
    \cup {[mode |-> "unreadable", text |-> _save_history(FreshHistory).text]}
    \cup WrittenFiles
    \cup {[mode |-> "file", text |-> t] : t \in CorruptTexts \cup MisshapenTexts}

----------------------------------------------------------------------------
(* The files of the pipeline.  A path is its directory and its name; a file
   is absent, a file, or locked: present, but unlink and overwriting fail
   with an OSError. *)

RunIds == {"r1", "r2"}

BACKGROUND_VIDEOS_DIR == "assets/videos"
BACKGROUND_MUSIC_DIR == "assets/music"
TEMP_DIR == "temp"
TEMP_AUDIO_DIR == "temp/audio"
TEMP_SUBTITLES_DIR == "temp/subtitles"
TEMP_VIDEOS_DIR == "temp/videos"

Path(dir, name) == [dir |-> dir, name |-> name]

audio_path(unique_id) == Path(TEMP_AUDIO_DIR, "audio_" \o unique_id \o ".wav")
subtitles_path(unique_id) == Path(TEMP_SUBTITLES_DIR, "subtitles_" \o unique_id \o ".srt")
final_video_path(unique_id) == Path(TEMP_VIDEOS_DIR, "final_video_" \o unique_id \o ".mp4")

Artifacts(unique_id) ==
    {audio_path(unique_id), subtitles_path(unique_id), final_video_path(unique_id)}

UnrelatedFile == Path(TEMP_DIR, "do_not_delete.txt")

VideoAssets == {Path(BACKGROUND_VIDEOS_DIR, n) : n \in {"v1.mp4", "v2.mp4"}}
MusicAssets == {Path(BACKGROUND_MUSIC_DIR, n) : n \in {"m1.mp3", "m2.mp3"}}

Paths ==
    UNION {Artifacts(id) : id \in RunIds}
    \cup {UnrelatedFile} \cup VideoAssets \cup MusicAssets

NoPath == Path("", "")

exists(d, p) == d[p] # "absent"

iterdir(d, dir) == {p \in Paths : p.dir = dir /\ exists(d, p)}

EmptyDisk == [p \in Paths |-> "absent"]

NoRun ==
    [op |-> "none", unique_id |-> "", ok |-> FALSE, raised |-> "",
     propagated |-> "",
     invoked |-> <<>>, results |-> <<>>, video |-> NoPath, music |-> NoPath,
     category |-> "", script_category |-> "", post_id |-> "", log |-> "",
     deleted_count |-> 0, env |-> <<>>,
     disk_before |-> EmptyDisk, file_before |-> [mode |-> "missing", text |-> <<>>]]

NoProcs == <<>>

PipelineIdle ==
    /\ disk = EmptyDisk
    /\ run = NoRun
    /\ procs = NoProcs

----------------------------------------------------------------------------
(* Specification: any calls, any candidate lists, any starting store *)

CandidateLists ==
    SeqsUpTo(Items, MaxItems)
    \cup { <<"A", "B", "C">>, <<"C", "A", "C">> }

Init ==
    /\ file \in InitFiles
    /\ last = NoCall
    /\ calls = 0
    /\ trace = <<>>
    /\ PipelineIdle

Call ==
    /\ calls < MaxCalls
    /\ LET history == _load_history(file)
       IN  \E item_type \in ItemTypes, all_items \in CandidateLists :
               get_next_item(item_type, all_items, history)
    /\ calls' = calls + 1
    /\ UNCHANGED <<trace, disk, run, procs>>

Next == Call

Spec == Init /\ [][Next]_vars

----------------------------------------------------------------------------
(* Specification: consecutive calls for one item type with one pool of more
   unique items than the cooldown window.  A behaviour starts in the state
   the program is in after cooldown_size - SeedGap such calls on a missing
   store, which returned the first items of the pool. *)

PoolItems == << "p1", "p2", "p3", "p4", "p5", "p6", "p7",
                "p8", "p9", "p10", "p11", "p12", "p13" >>

Pool(n) == SubSeq(PoolItems, 1, n)

Seeded(item_type, pool) ==
    LET n == cooldown_size(item_type) - SeedGap
        key == history_key(item_type)
    IN  /\ trace = SubSeq(pool, 1, n)
        /\ file = _save_history(DictSet(FreshHistory, key, PyList(SubSeq(pool, 1, n))))
        /\ last = [op |-> "get_next_item", item_type |-> item_type,
                   all_items |-> pool, outcome |-> "ok",
                   selected |-> pool[n], recent |-> SubSeq(pool, 1, n - 1),
                   fallback |-> FALSE,
                   drawn_from |-> SubSeq(pool, n, Len(pool)),
                   saved |-> DictSet(FreshHistory, key, PyList(SubSeq(pool, 1, n))),
                   before |-> IF n = 1 THEN [mode |-> "missing", text |-> <<>>]
                              ELSE _save_history(DictSet(FreshHistory, key,
                                                         PyList(SubSeq(pool, 1, n - 1))))]

InitCooldown ==
    /\ calls = 0
    /\ PipelineIdle
    /\ \E item_type \in ItemTypes, extra \in 1..2 :
           Seeded(item_type, Pool(cooldown_size(item_type) + extra))

CallSamePool ==
    /\ calls < MaxCooldownCalls
    /\ get_next_item(last.item_type, last.all_items, _load_history(file))
    /\ calls' = calls + 1
    /\ trace' = IF last'.outcome = "ok" THEN Append(trace, last'.selected) ELSE trace
    /\ UNCHANGED <<disk, run, procs>>

NextCooldown == CallSamePool

SpecCooldown == InitCooldown /\ [][NextCooldown]_vars

----------------------------------------------------------------------------
(* Views of the store used by the properties *)

HistoryKeys == {"categories", "videos", "music", "categorys", "musics"}

Absent == [kind |-> "absent", s |-> "", l |-> <<>>]

\* what a reader of the store finds under key (Absent when there is no such
\* member, or no readable object at all)
StoredValue(f, key) ==
    LET h == _load_history(f)
    IN  IF h.exc = "none" /\ h.kind = "dict" THEN DictGet(h.d, key, Absent) ELSE Absent

\* the sequence stored under key (empty when there is none)
StoredSeq(f, key) ==
    LET v == StoredValue(f, key)
    IN  IF v.kind = "list" THEN v.l ELSE <<>>

\* a persisted history: no file yet, or an object whose members are all arrays
IsHistory(f) ==
    \/ f.mode = "missing"
    \/ /\ f.mode = "file"
       /\ LET doc == json_load(f.text)
          IN  /\ doc.ok
              /\ doc.kind = "dict"
              /\ \A i \in 1..Len(doc.d) : doc.d[i].v.kind = "list"

Called == last.op = "get_next_item"
Returned == Called /\ last.outcome = "ok"
Window == IF last.item_type = "category" THEN CATEGORY_COOLDOWN ELSE ASSET_COOLDOWN
LastKey == history_key(last.item_type)
Min(a, b) == IF a < b THEN a ELSE b

\* new is old with x appended, cut from the front to at most n entries
IsRolled(new, old, x, n) ==
    LET s == new
        r == old
    IN  /\ Len(s) = Min(Len(r) + 1, n)
        /\ s[Len(s)] = x
        /\ \A i \in 1..(Len(s) - 1) : s[i] = r[Len(r) - (Len(s) - 1) + i]

----------------------------------------------------------------------------
(* C1: a call with a non-empty candidate list on any persisted history
   (empty, partly filled, full, holding identifiers that are not candidates)
   returns, and what it returns is a member of the candidate list. *)
C1_ReturnsCandidate ==
    /\ Returned => last.selected \in Range(last.all_items)
    /\ (Called /\ last.all_items # <<>> /\ IsHistory(last.before)) => Returned

C1_Witness ==
    /\ Returned
    /\ Len(last.recent) = Window
    /\ \E x \in Range(last.recent) : x \notin Range(last.all_items)

(* C2: when some candidate is absent from the loaded recent history, the
   returned element is not in that history; when exactly one candidate is
   absent, that candidate is the one returned. *)
C2_AvoidsRecent ==
    LET absent == Range(last.all_items) \ Range(last.recent)
    IN  (Returned /\ absent # {}) =>
            /\ last.selected \notin Range(last.recent)
            /\ Cardinality(absent) = 1 => absent = {last.selected}

C2_Witness ==
    /\ Returned
    /\ last.all_items = <<"A", "B", "C">>
    /\ last.recent = <<"A", "B">>
    /\ last.selected = "C"

(* C3: in consecutive successful calls for one item type with one pool of at
   least cooldownSize + 1 unique items, the item returned by call i is not
   returned by any of the calls i+1 .. i+cooldownSize. *)
C3_NoRepeatInWindow ==
    \A i, j \in 1..Len(trace) :
        (i < j /\ j - i <= Window) => trace[i] # trace[j]

C3_Witness ==
    /\ Len(trace) >= Window + 2
    /\ trace[Window + 2] = trace[1]

(* C4: the sequence stored for each item type is never longer than the
   cooldown window of that type: 5 for category, 10 for video and music. *)
C4_LengthBounded ==
    /\ Len(StoredSeq(file, history_key("category"))) <= CATEGORY_COOLDOWN
    /\ Len(StoredSeq(file, history_key("video"))) <= ASSET_COOLDOWN
    /\ Len(StoredSeq(file, history_key("music"))) <= ASSET_COOLDOWN

C4_Witness ==
    /\ Returned
    /\ calls = MaxCalls
    /\ Len(last.recent) = Window
    /\ Len(StoredSeq(file, LastKey)) = Window

(* C5: after a successful call the stored sequence of its item type is the
   loaded sequence with the returned element appended, cut from the front to
   the most recent cooldownSize entries; the returned element is last. *)
C5_AppendedAndTruncated ==
    Returned => IsRolled(StoredSeq(file, LastKey), last.recent, last.selected, Window)

C5_Witness ==
    /\ Returned
    /\ Len(last.recent) = Window
    /\ last.recent[1] # last.recent[2]
    /\ StoredSeq(file, LastKey)[1] = last.recent[2]

(* C6: a call with an empty candidate list raises ValueError and leaves the
   store as it was. *)
C6_EmptyCandidatesRejected ==
    (Called /\ last.all_items = <<>>) =>
        /\ last.outcome = "ValueError"
        /\ file = last.before

C6_Witness ==
    /\ Called
    /\ last.all_items = <<>>
    /\ StoredSeq(file, LastKey) # <<>>

(* C7: when every candidate is in the loaded recent history the call still
   succeeds: it draws from the full candidate list and updates the stored
   history as in the normal case. *)
C7_FallbackSucceeds ==
    (/\ Called
     /\ last.all_items # <<>>
     /\ IsHistory(last.before)
     /\ Range(last.all_items) \subseteq Range(StoredSeq(last.before, LastKey)))
    => /\ Returned
       /\ last.fallback
       /\ last.selected \in Range(last.all_items)
       /\ IsRolled(StoredSeq(file, LastKey), StoredSeq(last.before, LastKey),
                   last.selected, Window)

C7_Witness ==
    /\ Returned
    /\ last.fallback
    /\ Cardinality(Range(last.all_items)) = 2
    /\ last.selected = last.recent[Len(last.recent)]

(* C8: with a non-empty candidate list no failure to read or parse the store
   reaches the caller: a missing, unreadable, malformed or misshapen store is
   treated as an empty history and the call returns. *)
C8_NoStorageError ==
    (Called /\ last.all_items # <<>>) =>
        /\ Returned
        /\ ~IsHistory(last.before) => last.recent = <<>>

(* C9: the history saved at the end of a successful call, loaded again,
   gives for every key the sequence that was saved, and the sequence of the
   call's item type holds at most cooldownSize entries. *)
C9_SaveLoadRoundTrip ==
    Returned =>
        LET loaded == _load_history(file)
        IN  /\ loaded.exc = "none"
            /\ loaded.kind = "dict"
            /\ loaded.d = last.saved
            /\ Len(DictGet(loaded.d, LastKey, Absent).l) <= Window

C9_Witness ==
    /\ Returned
    /\ Len(last.recent) = Window
    /\ Cardinality({i \in 1..Len(last.saved) : Len(last.saved[i].v.l) >= 2}) >= 2

(* C10: a successful call persists every member of the loaded history and
   changes only the sequence of its own item type. *)
C10_OtherCategoriesUnchanged ==
    Returned =>
        \A key \in HistoryKeys \ {LastKey} :
            StoredValue(file, key) = StoredValue(last.before, key)

C10_Witness ==
    /\ Returned
    /\ Cardinality({key \in HistoryKeys \ {LastKey} :
                        StoredSeq(last.before, key) # <<>>}) >= 2

(* C11: the persisted history holds the selections of item types category,
   video and music in the arrays under the keys "categories", "videos" and
   "music" respectively: after a successful call the returned item is the
   newest entry of the array under that key, no key outside those three is
   stored, and the draw avoided what that array held. *)
documented_key(item_type) ==
    CASE item_type = "category" -> "categories"
      [] item_type = "video" -> "videos"
      [] item_type = "music" -> "music"

C11_DocumentedKeys ==
    Returned =>
        LET stored == StoredSeq(file, documented_key(last.item_type))
        IN  /\ stored # <<>>
            /\ stored[Len(stored)] = last.selected
            /\ last.recent = StoredSeq(last.before, documented_key(last.item_type))
            /\ \A i \in 1..Len(last.saved) :
                   last.saved[i].k \in {"categories", "videos", "music"}

----------------------------------------------------------------------------
(* video_builder.py: build_video and its choice of background assets *)

\* what a pipeline stage hands back: its return value (ok is its truthiness),
\* the exception it raised if any, and the files after it
Result(ok, raised, value, d) == [ok |-> ok, raised |-> raised, value |-> value, disk |-> d]

\* _get_random_asset: the values it can return; None (NoPath) when the
\* directory is missing or empty, else any entry (random.choice)
_get_random_asset(d, asset_dir) ==
    IF iterdir(d, asset_dir) = {} THEN {NoPath} ELSE iterdir(d, asset_dir)

\* build_video with the outcome of its two draws and of the ffmpeg process.
\* It never opens the history file.
build_video(d, audio, subtitles, unique_id, ffmpeg_ok, background_video_path, background_music_path) ==
    LET output_path == final_video_path(unique_id)
    IN  IF \/ background_video_path = NoPath \/ background_music_path = NoPath
           \/ ~exists(d, audio) \/ ~exists(d, subtitles)
        THEN Result(FALSE, "", NoPath, d)
        ELSE IF ffmpeg_ok /\ d[output_path] # "locked"
        THEN Result(TRUE, "", output_path, [d EXCEPT ![output_path] = "file"])
        ELSE Result(FALSE, "", NoPath, d)

(* Specification: build_video called as its standalone block calls it, on any
   content of the asset directories, with or without the voiceover and the
   subtitles of the run on disk. *)

MaxBuilds == 2   \* build_video calls per behaviour of SpecBuild

BuildDisks ==
    { [p \in Paths |->
          IF p \in assets THEN "file"
          ELSE IF p = audio_path("r1") THEN a
          ELSE IF p = subtitles_path("r1") THEN s
          ELSE IF p = final_video_path("r1") THEN o
          ELSE "absent"] :
      assets \in SUBSET (VideoAssets \cup MusicAssets),
      a \in {"absent", "file"}, s \in {"absent", "file"},
      o \in {"absent", "file", "locked"} }

InitBuild ==
    /\ file \in {[mode |-> "missing", text |-> <<>>]} \cup WrittenFiles
    /\ last = NoCall
    /\ calls = 0
    /\ trace = <<>>
    /\ disk \in BuildDisks
    /\ run = NoRun
    /\ procs = NoProcs

BuildVideo ==
    /\ calls < MaxBuilds
    /\ \E ffmpeg_ok \in BOOLEAN,
          background_video_path \in _get_random_asset(disk, BACKGROUND_VIDEOS_DIR),
          background_music_path \in _get_random_asset(disk, BACKGROUND_MUSIC_DIR) :
           LET built == build_video(disk, audio_path("r1"), subtitles_path("r1"), "r1",
                                    ffmpeg_ok, background_video_path,
                                    background_music_path)
           IN  /\ disk' = built.disk
               /\ run' = [NoRun EXCEPT !.op = "build_video", !.unique_id = "r1",
                                       !.invoked = <<"build_video">>,
                                       !.ok = built.ok,
                                       !.video = background_video_path,
                                       !.music = background_music_path,
                                       !.disk_before = disk, !.file_before = file]
    /\ calls' = calls + 1
    /\ UNCHANGED <<file, last, trace, procs>>

NextBuild == BuildVideo

SpecBuild == InitBuild /\ [][NextBuild]_vars

(* C12: the background video and the background music build_video uses are
   each chosen through get_next_item (item types 'video' and 'music'): after
   build_video has chosen them, each is the newest entry of the history
   stored for its item type. *)
C12_AssetsThroughPolicy ==
    (run.op = "build_video" /\ run.ok) =>
        LET videos == StoredSeq(file, history_key("video"))
            musics == StoredSeq(file, history_key("music"))
        IN  /\ videos # <<>> /\ videos[Len(videos)] = run.video.name
            /\ musics # <<>> /\ musics[Len(musics)] = run.music.name

----------------------------------------------------------------------------
(* The other stages of the pipeline.  Each takes the files before it and the
   outcome of the external collaborator it calls (the LLM, the TTS model,
   the transcription service, ffmpeg, the Graph API). *)

\* content/categories.py: category name -> non-empty list of sub-themes
CATEGORIES ==
    << [k |-> "c1", v |-> <<"t1", "t2">>],
       [k |-> "c2", v |-> <<"t3">>] >>

keys(d) == [i \in 1..Len(d) |-> d[i].k]

NoScript == [script |-> "", category |-> "", sub_theme |-> ""]

\* the parameters of `def generate_script()`: there are none
generate_script_params == {}

\* a call with keyword arguments binds only when each keyword names a
\* parameter; otherwise Python raises TypeError before the body runs.  The
\* body draws its own category and sub-theme and asks the LLM twice.
generate_script(d, keywords, llm_ok, category, sub_theme) ==
    IF ~(keywords \subseteq generate_script_params)
    THEN Result(FALSE, "TypeError", NoScript, d)
    ELSE IF llm_ok
    THEN Result(TRUE, "", [script |-> "script", category |-> category,
                           sub_theme |-> sub_theme], d)
    ELSE Result(FALSE, "", NoScript, d)

generate_tts_audio(d, script_text, unique_id, tts_ok) ==
    LET output_path == audio_path(unique_id)
    IN  IF tts_ok /\ d[output_path] # "locked"
        THEN Result(TRUE, "", output_path, [d EXCEPT ![output_path] = "file"])
        ELSE Result(FALSE, "", NoPath, d)

generate_captions(d, audio_file_path, unique_id, whisper_ok) ==
    LET output_path == subtitles_path(unique_id)
    IN  IF ~exists(d, audio_file_path) THEN Result(FALSE, "", NoPath, d)
        ELSE IF whisper_ok /\ d[output_path] # "locked"
        THEN Result(TRUE, "", output_path, [d EXCEPT ![output_path] = "file"])
        ELSE Result(FALSE, "", NoPath, d)

----------------------------------------------------------------------------
(* posting/facebook.py: the three Graph API requests of a Reel upload.  Each
   request ends "ok", "rejected" (a 2xx response without the expected field)
   or "error" (a requests.exceptions.RequestException, HTTP 4xx/5xx included);
   None is the empty string. *)

HttpOutcomes == {"ok", "rejected", "error"}

Https == [start : HttpOutcomes, upload : HttpOutcomes, publish : HttpOutcomes]

UploadSteps == <<"start", "upload", "publish">>

\* FacebookUploader.__init__: raises ValueError on missing or placeholder
\* credentials
FacebookUploader(configured) == IF configured THEN "" ELSE "ValueError"

_start_upload_session(outcome) == IF outcome = "ok" THEN "vid" ELSE ""

\* open(video_path, "rb") is inside a try that catches only RequestException
_upload_video_chunk(d, video_id, video_path, outcome) ==
    IF ~exists(d, video_path) THEN [raised |-> "FileNotFoundError", ok |-> FALSE]
    ELSE [raised |-> "", ok |-> outcome = "ok"]

_publish_reel(video_id, caption, outcome) ==
    IF outcome = "ok" THEN "post_" \o video_id ELSE ""

Uploaded(steps, post_id, raised, d) ==
    [ok |-> post_id # "", raised |-> raised, value |-> post_id, disk |-> d,
     steps |-> steps]

\* every step attempted whatever the one before returned
upload_and_publish_unchecked(d, video_path, http) ==
    LET video_id == _start_upload_session(http.start)
        uploaded == _upload_video_chunk(d, video_id, video_path, http.upload)
    IN  Uploaded(UploadSteps, _publish_reel(video_id, "caption", http.publish),
                 uploaded.raised, d)

upload_and_publish(d, video_path, http) ==
    LET video_id == _start_upload_session(http.start)
    IN  IF video_id = "" THEN Uploaded(<<"start">>, "", "", d)
        ELSE LET uploaded == _upload_video_chunk(d, video_id, video_path, http.upload)
             IN  IF uploaded.raised # ""
                 THEN Uploaded(<<"start", "upload">>, "", uploaded.raised, d)
                 ELSE IF ~uploaded.ok
                 THEN Uploaded(<<"start", "upload">>, "", "", d)
                 ELSE Uploaded(UploadSteps,
                               _publish_reel(video_id, "caption", http.publish),
                               "", d)

----------------------------------------------------------------------------
(* cleanup.py *)

files_to_delete(unique_id) ==
    <<audio_path(unique_id), subtitles_path(unique_id), final_video_path(unique_id)>>

\* every file of the two run directories goes, whatever run it belongs to
perform_cleanup_whole_directories(d, unique_id) ==
    LET gone == {p \in Paths : p.dir \in {TEMP_AUDIO_DIR, TEMP_SUBTITLES_DIR,
                                          TEMP_VIDEOS_DIR} /\ d[p] = "file"}
    IN  [disk |-> [p \in Paths |-> IF p \in gone THEN "absent" ELSE d[p]],
         deleted_count |-> Cardinality(gone), raised |-> ""]

\* mutant: unlink without the exists() test and without the except clause;
\* the first target that is missing or cannot be unlinked ends the loop
perform_cleanup_unguarded(d, unique_id) ==
    LET targets == files_to_delete(unique_id)
        bad == {i \in 1..Len(targets) : d[targets[i]] # "file"}
        stop == IF bad = {} THEN Len(targets) + 1
                ELSE CHOOSE i \in bad : \A j \in bad : i <= j
        gone == {targets[i] : i \in 1..(stop - 1)}
    IN  [disk |-> [p \in Paths |-> IF p \in gone THEN "absent" ELSE d[p]],
         deleted_count |-> Cardinality(gone),
         raised |-> IF bad = {} THEN ""
                    ELSE IF d[targets[stop]] = "absent" THEN "FileNotFoundError"
                    ELSE "PermissionError"]

\* the loop over files_to_delete: a file is unlinked and counted; a missing
\* one is skipped with a warning; an OSError from unlink is logged and the
\* loop goes on
perform_cleanup(d, unique_id) ==
    LET gone == {p \in Range(files_to_delete(unique_id)) : d[p] = "file"}
    IN  [disk |-> [p \in Paths |-> IF p \in gone THEN "absent" ELSE d[p]],
         deleted_count |-> Cardinality(gone), raised |-> ""]

----------------------------------------------------------------------------
(* main.py: run_job *)

Stages == <<"select", "script", "tts", "captions", "video", "upload", "cleanup">>

\* the outcomes of the collaborators of one run; run_job cannot tell a
\* rejected request from a failed one, so each request succeeds or fails
Envs ==
    [llm : BOOLEAN, tts : BOOLEAN, whisper : BOOLEAN, ffmpeg : BOOLEAN,
     fb_configured : BOOLEAN,
     http : [start : {"ok", "error"}, upload : {"ok", "error"},
             publish : {"ok", "error"}]]

\* CATEGORIES[category_name]
sub_themes(category_name) ==
    CATEGORIES[CHOOSE i \in 1..Len(CATEGORIES) : CATEGORIES[i].k = category_name].v

AllSucceed(env) ==
    /\ env.llm /\ env.tts /\ env.whisper /\ env.ffmpeg /\ env.fb_configured
    /\ env.http = [start |-> "ok", upload |-> "ok", publish |-> "ok"]

\* the random draws made inside the stages
Draws(d) ==
    { draw \in [category : Range(keys(CATEGORIES)),
                sub_theme : UNION {Range(CATEGORIES[i].v) : i \in 1..Len(CATEGORIES)},
                video : _get_random_asset(d, BACKGROUND_VIDEOS_DIR),
                music : _get_random_asset(d, BACKGROUND_MUSIC_DIR)] :
          draw.sub_theme \in Range(sub_themes(draw.category)) }

stage_result(r) == IF r.raised # "" THEN "raised" ELSE IF r.ok THEN "ok" ELSE "none"

Job(log, invoked, results, d, raised) ==
    [log |-> log, invoked |-> invoked, results |-> results, disk |-> d,
     raised |-> raised, propagated |-> "", post_id |-> "", script_category |-> "",
     video |-> NoPath, music |-> NoPath, deleted_count |-> 0]

\* an exception raised by a stage is ignored and the job goes on
aborts_on_falsy_only(r) == ~r.ok /\ r.raised = ""

\* a stage stops the job when it raises or returns a falsy value
\* (`if not x: raise Exception(...)`)
aborts(r) == r.raised # "" \/ ~r.ok

\* the temporary files of the run are removed when the job fails too
job_failed_with_cleanup(invoked, results, d, unique_id, raised) ==
    Job("failed", Append(invoked, "cleanup"), Append(results, "ok"),
        perform_cleanup(d, unique_id).disk, raised)

\* the exception classes the stages raise; each is a subclass of Exception
Exceptions ==
    {"Exception", "ValueError", "TypeError", "AttributeError", "IndexError",
     "PermissionError", "FileNotFoundError"}

\* mutant: the handler is `except ValueError`
handled_value_error_only(exc) == exc = "ValueError"

\* `except Exception as e`: what the handler of run_job catches
handled(exc) == exc \in Exceptions

\* the handler: the error is logged, "JOB FAILED" is logged, nothing else is
\* done; an exception it does not catch leaves run_job with no final log line
job_failed(invoked, results, d, unique_id, raised) ==
    IF handled(raised)
    THEN Job("failed", invoked, results, d, raised)
    ELSE [Job("", invoked, results, d, raised) EXCEPT !.propagated = raised]

Raise(r) == IF r.raised # "" THEN r.raised ELSE "Exception"

\* run_job after the selection of step 1 (whose observation is `selection`):
\* the stages in program order, each one's failure checked before the next
run_job(d, unique_id, selection, sub_theme, env, draw) ==
    IF selection.outcome # "ok"
    THEN job_failed(<<"select">>, <<"raised">>, d, unique_id, selection.outcome)
    ELSE
    LET category_name == selection.selected
        script_data == generate_script(d, {"category", "sub_theme"}, env.llm,
                                       draw.category, draw.sub_theme)
    IN  IF aborts(script_data)
        THEN job_failed(SubSeq(Stages, 1, 2), <<"ok", stage_result(script_data)>>,
                        d, unique_id, Raise(script_data))
        ELSE
    LET audio == generate_tts_audio(script_data.disk, script_data.value.script,
                                    unique_id, env.tts)
    IN  IF aborts(audio)
        THEN job_failed(SubSeq(Stages, 1, 3),
                        <<"ok", stage_result(script_data), stage_result(audio)>>,
                        audio.disk, unique_id, Raise(audio))
        ELSE
    LET subtitles == generate_captions(audio.disk, audio.value, unique_id, env.whisper)
    IN  IF aborts(subtitles)
        THEN job_failed(SubSeq(Stages, 1, 4),
                        <<"ok", stage_result(script_data), stage_result(audio),
                          stage_result(subtitles)>>,
                        subtitles.disk, unique_id, Raise(subtitles))
        ELSE
    LET final_video == build_video(subtitles.disk, audio.value, subtitles.value,
                                   unique_id, env.ffmpeg, draw.video, draw.music)
    IN  IF aborts(final_video)
        THEN job_failed(SubSeq(Stages, 1, 5),
                        <<"ok", stage_result(script_data), stage_result(audio),
                          stage_result(subtitles), stage_result(final_video)>>,
                        final_video.disk, unique_id, Raise(final_video))
        ELSE
    LET uploader == FacebookUploader(env.fb_configured)
        published == IF uploader # ""
                     THEN Uploaded(<<>>, "", uploader, final_video.disk)
                     ELSE upload_and_publish(final_video.disk, final_video.value, env.http)
        results == <<"ok", stage_result(script_data), stage_result(audio),
                     stage_result(subtitles), stage_result(final_video),
                     stage_result(published)>>
    IN  IF aborts(published)
        THEN [job_failed(SubSeq(Stages, 1, 6), results, published.disk, unique_id,
                         Raise(published))
                 EXCEPT !.script_category = script_data.value.category,
                        !.video = draw.video, !.music = draw.music]
        ELSE
    LET cleaned == perform_cleanup(published.disk, unique_id)
    IN  [Job("completed", Stages, Append(results, "ok"), cleaned.disk, "")
            EXCEPT !.post_id = published.value,
                   !.script_category = script_data.value.category,
                   !.video = draw.video, !.music = draw.music,
                   !.deleted_count = cleaned.deleted_count]

(* Specification: one run of the job, as main.py makes it, on any store a
   previous run or an accident can have left, with any outcome of each
   external collaborator. *)

JobDisks ==
    { [p \in Paths |->
          IF p \in VideoAssets \cup MusicAssets THEN "file"
          ELSE IF p \in Artifacts("r2") \cup {UnrelatedFile} THEN leftover
          ELSE "absent"] : leftover \in {"absent", "file"} }

InitJob ==
    /\ file \in InitFiles
    /\ last = NoCall
    /\ calls = 0
    /\ trace = <<>>
    /\ disk \in JobDisks
    /\ run = NoRun
    /\ procs = NoProcs

\* run_job with a catalog whose category names are category_names
RunJobWith(category_names) ==
    /\ run.op = "none"
    /\ get_next_item("category", category_names, _load_history(file))
    /\ \E unique_id \in RunIds, env \in Envs, draw \in Draws(disk),
          sub_theme \in IF last'.outcome = "ok"
                        THEN Range(sub_themes(last'.selected)) ELSE {""} :
           LET job == run_job(disk, unique_id, last', sub_theme, env, draw)
           IN  /\ disk' = job.disk
               /\ run' = [NoRun EXCEPT !.op = "run_job", !.unique_id = unique_id,
                                       !.ok = job.log = "completed",
                                       !.raised = job.raised, !.log = job.log,
                                       !.propagated = job.propagated,
                                       !.invoked = job.invoked,
                                       !.results = job.results,
                                       !.category = last'.selected,
                                       !.script_category = job.script_category,
                                       !.video = job.video, !.music = job.music,
                                       !.post_id = job.post_id,
                                       !.deleted_count = job.deleted_count,
                                       !.env = env,
                                       !.disk_before = disk, !.file_before = file]
    /\ calls' = calls + 1
    /\ UNCHANGED <<trace, procs>>

RunJob == RunJobWith(keys(CATEGORIES))

NextJob == RunJob

SpecJob == InitJob /\ [][NextJob]_vars

JobRan == run.op = "run_job"

(* C13: the script generation stage accepts the (category, sub_theme) pair
   chosen in step 1 of run_job, and the script it returns is generated for
   exactly the category the selection returned. *)
C13_ScriptForSelectedCategory ==
    (JobRan /\ Len(run.invoked) >= 2) =>
        /\ run.results[2] # "raised"
        /\ run.results[2] = "ok" => run.script_category = run.category

(* C14: the stages of run_job are invoked in the order select, script, TTS,
   captions, video build, upload, cleanup; once a stage fails (it raises or
   returns a falsy value) no later stage is invoked, cleanup is skipped, the
   job is logged as failed and every file that was on disk or that an
   earlier stage produced is still there, unchanged. *)
C14_FailFast ==
    JobRan =>
        /\ run.invoked = SubSeq(Stages, 1, Len(run.invoked))
        /\ Len(run.results) = Len(run.invoked)
        /\ \A i \in 1..(Len(run.invoked) - 1) : run.results[i] = "ok"
        /\ (\E i \in 1..Len(run.results) : run.results[i] # "ok") =>
               /\ run.log = "failed"
               /\ "cleanup" \notin Range(run.invoked)
               /\ \A p \in Paths : exists(run.disk_before, p) => disk[p] = run.disk_before[p]
               /\ Len(run.invoked) > 3 => exists(disk, audio_path(run.unique_id))
               /\ Len(run.invoked) > 4 => exists(disk, subtitles_path(run.unique_id))
               /\ Len(run.invoked) > 5 => exists(disk, final_video_path(run.unique_id))

C14_Witness ==
    /\ JobRan
    /\ run.invoked = <<"select", "script">>
    /\ run.results[2] # "ok"
    /\ run.log = "failed"
    /\ exists(disk, final_video_path("r2"))

(* C15: perform_cleanup is invoked in a run only after upload_and_publish of
   that run returned a post id: a run whose upload was not invoked, or
   returned None, or raised, never invokes cleanup. *)
C15_CleanupOnlyAfterPublish ==
    (JobRan /\ "cleanup" \in Range(run.invoked)) =>
        /\ run.post_id # ""
        /\ \E i \in 1..Len(run.invoked) :
               /\ run.invoked[i] = "upload"
               /\ run.results[i] = "ok"
               /\ \E j \in (i + 1)..Len(run.invoked) : run.invoked[j] = "cleanup"

C15_Witness ==
    /\ JobRan
    /\ run.post_id = ""
    /\ "upload" \notin Range(run.invoked)
    /\ "cleanup" \notin Range(run.invoked)
    /\ disk = run.disk_before
    /\ \A p \in Artifacts("r2") : exists(disk, p)

(* C20: in a run of run_job in which every external collaborator succeeds
   (and the history store is a well-formed history or missing), the job
   reaches the publish step, invokes perform_cleanup, and ends logged as
   'JOB COMPLETED SUCCESSFULLY', not 'JOB FAILED'. *)
C20_CompletesWhenAllSucceed ==
    (JobRan /\ AllSucceed(run.env) /\ last.outcome = "ok") =>
        /\ run.log = "completed"
        /\ run.post_id # ""
        /\ "cleanup" \in Range(run.invoked)

----------------------------------------------------------------------------
(* Specification: perform_cleanup called for either run identifier, as the
   standalone block of cleanup.py calls it, on a temp directory in which each
   artifact of each run is absent, a file or locked, next to an unrelated
   file. *)

MaxCleanups == 2   \* perform_cleanup calls per behaviour of SpecCleanup

CleanupDisks ==
    { d \in [Paths -> {"absent", "file", "locked"}] :
          /\ \A p \in VideoAssets \cup MusicAssets : d[p] = "file"
          /\ d[UnrelatedFile] # "locked" }

InitCleanup ==
    /\ file = [mode |-> "missing", text |-> <<>>]
    /\ last = NoCall
    /\ calls = 0
    /\ trace = <<>>
    /\ disk \in CleanupDisks
    /\ run = NoRun
    /\ procs = NoProcs

Cleanup ==
    /\ calls < MaxCleanups
    /\ \E unique_id \in RunIds :
           LET cleaned == perform_cleanup(disk, unique_id)
           IN  /\ disk' = cleaned.disk
               /\ run' = [NoRun EXCEPT !.op = "perform_cleanup",
                                       !.unique_id = unique_id,
                                       !.ok = (cleaned.raised = ""),
                                       !.raised = cleaned.raised,
                                       !.invoked = <<"cleanup">>,
                                       !.deleted_count = cleaned.deleted_count,
                                       !.disk_before = disk, !.file_before = file]
               /\ trace' = Append(trace, unique_id)
    /\ calls' = calls + 1
    /\ UNCHANGED <<file, last, procs>>

NextCleanup == Cleanup

SpecCleanup == InitCleanup /\ [][NextCleanup]_vars

Cleaned == run.op = "perform_cleanup"

(* C16: perform_cleanup(unique_id) removes the three artifacts of that run
   (audio_<id>.wav, subtitles_<id>.srt, final_video_<id>.mp4) that exist as
   files it can unlink, counts them, and leaves every other path as it was:
   the artifacts of other run identifiers, unrelated files, the assets, and
   an artifact whose unlink fails. *)
C16_RemovesOnlyOwnArtifacts ==
    Cleaned =>
        /\ \A p \in Paths :
               disk[p] = IF p \in Artifacts(run.unique_id) /\ run.disk_before[p] = "file"
                         THEN "absent"
                         ELSE run.disk_before[p]
        /\ run.deleted_count =
               Cardinality({p \in Paths : disk[p] # run.disk_before[p]})

C16_Witness ==
    /\ Cleaned
    /\ run.unique_id = "r1"
    /\ \A p \in Artifacts("r1") : run.disk_before[p] = "file" /\ disk[p] = "absent"
    /\ \A p \in Artifacts("r2") \cup {UnrelatedFile} : disk[p] = "file"
    /\ run.deleted_count = Cardinality(Artifacts("r1"))

----------------------------------------------------------------------------
(* Specification: two invocations of get_next_item by two pipeline instances
   that share the history file.  Nothing in scheduler.py locks the file, so
   the load of line 53 and the save of line 78 of one invocation can be
   separated by steps of the other.  The write itself is one step. *)

Procs == {1, 2}

IdleProc ==
    [pc |-> "idle", item_type |-> "", all_items |-> <<>>,
     history |-> [exc |-> "none", kind |-> "dict", d |-> <<>>],
     loaded_from |-> [mode |-> "missing", text |-> <<>>],
     selected |-> "", load_at |-> 0, save_at |-> 0]

RaceLists == { <<"A">>, <<"A", "B">> }

InitRace ==
    /\ file \in {[mode |-> "missing", text |-> <<>>]} \cup WrittenFiles
    /\ last = NoCall
    /\ calls = 0
    /\ trace = <<>>
    /\ disk = EmptyDisk
    /\ run = NoRun
    /\ procs = [p \in Procs |-> IdleProc]

\* lines 50-53: the argument check and history = _load_history()
Load(p) ==
    /\ procs[p].pc = "idle"
    /\ \E item_type \in ItemTypes, all_items \in RaceLists :
           procs' = [procs EXCEPT ![p] =
                        [@ EXCEPT !.pc = "loaded", !.item_type = item_type,
                                  !.all_items = all_items,
                                  !.history = _load_history(file),
                                  !.loaded_from = file,
                                  !.load_at = calls + 1]]
    /\ calls' = calls + 1
    /\ UNCHANGED <<file, last, trace, disk, run>>

\* the file is read again just before the update is written
history_reloaded(loaded, f) == _load_history(f)

\* the history an invocation updates and saves is the one it loaded
history_in_hand(loaded, f) == loaded

\* lines 54-82: draw, update of the loaded history, _save_history, return
Save(p) ==
    /\ procs[p].pc = "loaded"
    /\ get_next_item(procs[p].item_type, procs[p].all_items,
                     history_in_hand(procs[p].history, file))
    /\ procs' = [procs EXCEPT ![p] =
                    [@ EXCEPT !.pc = "done", !.selected = last'.selected,
                              !.save_at = calls + 1]]
    /\ calls' = calls + 1
    /\ UNCHANGED <<trace, disk, run>>

NextRace == \E p \in Procs : Load(p) \/ Save(p)

SpecRace == InitRace /\ [][NextRace]_vars

BothDone == procs # NoProcs /\ \A p \in Procs : procs[p].pc = "done"

\* both loaded before either saved
Overlapped ==
    \A p, q \in Procs : procs[p].load_at < procs[q].save_at

LaterWriter == CHOOSE p \in Procs : \A q \in Procs : procs[q].save_at <= procs[p].save_at
EarlierWriter == CHOOSE p \in Procs : p # LaterWriter

(* C17: get_next_item takes no lock.  When two invocations both load the
   history before either saves, the history persisted after both have
   returned is the later writer's update of what it loaded and nothing else:
   under every other key the store holds what was there before either call,
   so the earlier writer's selection is not recorded.  When one invocation
   returns before the other loads, both returned selections are in the
   persisted history. *)
C17_LostUpdate ==
    BothDone =>
        LET w == procs[LaterWriter]
            e == procs[EarlierWriter]
            key == history_key(w.item_type)
        IN  IF Overlapped
            THEN /\ w.loaded_from = e.loaded_from
                 /\ IsRolled(StoredSeq(file, key), StoredSeq(w.loaded_from, key),
                             w.selected, cooldown_size(w.item_type))
                 /\ \A other \in HistoryKeys \ {key} :
                        StoredSeq(file, other) = StoredSeq(w.loaded_from, other)
            ELSE \A p \in Procs :
                     procs[p].selected \in
                         Range(StoredSeq(file, history_key(procs[p].item_type)))

C17_Witness ==
    /\ BothDone
    /\ Overlapped
    /\ procs[EarlierWriter].item_type # procs[LaterWriter].item_type
    /\ procs[EarlierWriter].selected \notin
           Range(StoredSeq(file, history_key(procs[EarlierWriter].item_type)))

----------------------------------------------------------------------------
(* Specification: upload_and_publish called on a constructed uploader with a
   finished video that is on disk, as run_job and the standalone block of
   facebook.py call it, with any outcome of each of the three requests. *)

MaxUploads == 2   \* upload_and_publish calls per behaviour of SpecUpload

UploadDisks ==
    { [p \in Paths |->
          IF p = final_video_path("r1") THEN v1
          ELSE IF p = final_video_path("r2") THEN v2
          ELSE "absent"] :
      v1 \in {"file", "locked"}, v2 \in {"absent", "file", "locked"} }

InitUpload ==
    /\ file = [mode |-> "missing", text |-> <<>>]
    /\ last = NoCall
    /\ calls = 0
    /\ trace = <<>>
    /\ disk \in UploadDisks
    /\ run = NoRun
    /\ procs = NoProcs

UploadAndPublish ==
    /\ calls < MaxUploads
    /\ \E unique_id \in RunIds, http \in Https :
           /\ exists(disk, final_video_path(unique_id))
           /\ LET published == upload_and_publish(disk, final_video_path(unique_id), http)
              IN  /\ disk' = published.disk
                  /\ run' = [NoRun EXCEPT !.op = "upload_and_publish",
                                          !.unique_id = unique_id,
                                          !.ok = published.ok,
                                          !.raised = published.raised,
                                          !.invoked = published.steps,
                                          !.post_id = published.value,
                                          !.env = http,
                                          !.disk_before = disk, !.file_before = file]
    /\ calls' = calls + 1
    /\ UNCHANGED <<file, last, trace, procs>>

NextUpload == UploadAndPublish

SpecUpload == InitUpload /\ [][NextUpload]_vars

UploadReturned == run.op = "upload_and_publish"

(* C18: upload_and_publish attempts start-session, upload-file and publish in
   that order; the upload is attempted exactly when start returned a video
   id, the publish exactly when the upload then succeeded; it returns a post
   id exactly when all three succeeded, and None (without raising, and
   without attempting any later step) when a step failed. *)
C18_UploadProtocol ==
    UploadReturned =>
        LET steps == run.invoked
            http == run.env
        IN  /\ steps # <<>>
            /\ steps = SubSeq(UploadSteps, 1, Len(steps))
            /\ "upload" \in Range(steps) <=> http.start = "ok"
            /\ "publish" \in Range(steps) <=> (http.start = "ok" /\ http.upload = "ok")
            /\ run.post_id # "" <=>
                   (http.start = "ok" /\ http.upload = "ok" /\ http.publish = "ok")
            /\ run.raised = ""
            /\ disk = run.disk_before

C18_Witness ==
    /\ UploadReturned
    /\ run.env.start = "ok"
    /\ run.env.upload # "ok"
    /\ run.env.publish = "ok"
    /\ run.invoked = <<"start", "upload">>
    /\ run.post_id = ""

----------------------------------------------------------------------------
(* Specification: back-to-back calls for one item type with one pool that is
   smaller than the cooldown window, starting with no history store. *)

MaxSmallPool == 3   \* largest pool of SpecSmallPool

InitSmallPool ==
    /\ file = [mode |-> "missing", text |-> <<>>]
    /\ calls = 0
    /\ trace = <<>>
    /\ PipelineIdle
    /\ \E item_type \in ItemTypes, n \in 1..MaxSmallPool :
           last = [NoCall EXCEPT !.item_type = item_type, !.all_items = Pool(n)]

SpecSmallPool == InitSmallPool /\ [][NextCooldown]_vars

(* C19: when every candidate is on cooldown the draw is made over the whole
   candidate list, the most recent pick included whenever it is a candidate;
   so with a small pool two back-to-back calls can return the same item. *)
C19_FallbackDrawsFromFullPool ==
    (Returned /\ last.fallback) =>
        /\ last.drawn_from = last.all_items
        /\ last.selected \in Range(last.drawn_from)
        /\ Len(trace) >= 2 =>
               trace[Len(trace) - 1] \in Range(last.drawn_from)

C19_Witness ==
    /\ Returned
    /\ last.fallback
    /\ Len(last.all_items) = 2
    /\ Len(trace) >= 2
    /\ trace[Len(trace)] = trace[Len(trace) - 1]

----------------------------------------------------------------------------
(* Specification: a get_next_item call whose process dies inside
   _save_history, after open(HISTORY_FILE, 'w') has truncated the file and
   before json.dump has written all of the text, followed by the next call
   of a restarted process.  What is left on disk is a proper prefix of the
   text, the empty one included. *)

\* the file after a write that stopped after n tokens
torn_save(history, n) == [mode |-> "file", text |-> SubSeq(json_dump(history), 1, n)]

InitCrash ==
    /\ file \in {[mode |-> "missing", text |-> <<>>]} \cup WrittenFiles
    /\ last = NoCall
    /\ calls = 0
    /\ trace = <<>>
    /\ PipelineIdle

\* lines 50-76 as in get_next_item, then the torn write of line 78
CrashInSave ==
    /\ run.op = "none"
    /\ LET history == _load_history(file)
       IN  /\ history.exc = "none"
           /\ history.kind = "dict"
           /\ \E item_type \in ItemTypes, all_items \in CandidateLists \ {<<>>} :
                  LET key == history_key(item_type)
                      recent == DictGet(history.d, key, PyList(<<>>))
                  IN  /\ recent.kind = "list"
                      /\ \E selected_item \in Range(available_items(all_items, recent.l)) :
                             LET saved == updated_history(history.d, key,
                                              updated_items(recent.l, selected_item,
                                                            cooldown_size(item_type)))
                             IN  \E n \in 0..(Len(json_dump(saved)) - 1) :
                                     /\ file' = torn_save(saved, n)
                                     /\ last' = [NoCall EXCEPT
                                                    !.op = "get_next_item",
                                                    !.item_type = item_type,
                                                    !.all_items = all_items,
                                                    !.outcome = "crashed",
                                                    !.recent = recent.l,
                                                    !.saved = saved,
                                                    !.before = file]
    /\ run' = [NoRun EXCEPT !.op = "crash", !.file_before = file]
    /\ UNCHANGED <<calls, trace, disk, procs>>

\* the next call, by a new process
CallAfterCrash ==
    /\ run.op = "crash"
    /\ run.invoked = <<>>
    /\ LET history == _load_history(file)
       IN  \E item_type \in ItemTypes, all_items \in CandidateLists :
               get_next_item(item_type, all_items, history)
    /\ run' = [run EXCEPT !.invoked = <<"get_next_item">>]
    /\ calls' = calls + 1
    /\ UNCHANGED <<trace, disk, procs>>

NextCrash == CrashInSave \/ CallAfterCrash

SpecCrash == InitCrash /\ [][NextCrash]_vars

Crashed == run.op = "crash" /\ run.invoked = <<>>
CalledAfterCrash == run.op = "crash" /\ run.invoked # <<>>

(* C21: a history file left half-written by a crash inside the persist step
   is handled like corruption: it loads as the fresh, empty history, and the
   next get_next_item call with a non-empty candidate list does not fail,
   finds no recent item for any item type, returns a member of the candidate
   list and saves a history that holds that item only. *)
C21_TornWriteStartsFresh ==
    /\ Crashed => _load_history(file) = [exc |-> "none", kind |-> "dict", d |-> FreshHistory]
    /\ (CalledAfterCrash /\ last.all_items # <<>>) =>
           /\ Returned
           /\ last.recent = <<>>
           /\ ~last.fallback
           /\ last.selected \in Range(last.all_items)
           /\ last.saved = DictSet(FreshHistory, LastKey, PyList(<<last.selected>>))
           /\ \A key \in HistoryKeys \ {LastKey} : StoredSeq(file, key) = <<>>

C21_Witness ==
    /\ CalledAfterCrash
    /\ Returned
    /\ Len(last.before.text) >= 5
    /\ StoredSeq(run.file_before, LastKey) # <<>>
    /\ StoredSeq(file, LastKey) = <<last.selected>>

----------------------------------------------------------------------------
(* Specification: one run of the job with the topic catalog as it is or with
   an empty one (list(CATEGORIES.keys()) is then the empty list). *)

RunJobEmptyCatalog == RunJobWith(<<>>)

NextJobAnyCatalog == RunJob \/ RunJobEmptyCatalog

SpecJobAnyCatalog == InitJob /\ [][NextJobAnyCatalog]_vars

(* C22: run_job never propagates an exception to its caller: whatever stage
   fails or raises (an empty topic catalog, an unconfigured FacebookUploader,
   an exception inside a collaborator), the run ends with exactly one of the
   two final log lines: 'JOB COMPLETED SUCCESSFULLY' when every stage
   succeeded, 'JOB FAILED' when one did not. *)
C22_NoExceptionEscapes ==
    JobRan =>
        /\ run.propagated = ""
        /\ run.log \in {"completed", "failed"}
        /\ run.log = "completed" <=>
               (run.raised = "" /\ \A i \in 1..Len(run.results) : run.results[i] = "ok")
        /\ run.log = "failed" <=> run.raised \in Exceptions

C22_Witness ==
    /\ JobRan
    /\ last.all_items = <<>>
    /\ run.raised = "ValueError"
    /\ run.log = "failed"
    /\ run.invoked = <<"select">>

(* C23: run_job invokes the selection once, before any other stage, and the
   history update is persisted then: a run that goes on to fail at a later
   stage leaves the store as the selection wrote it, with the selected
   category as the newest entry of the category history. *)
C23_SelectionSurvivesFailure ==
    (JobRan /\ last.outcome = "ok") =>
        /\ run.invoked[1] = "select"
        /\ Cardinality({i \in 1..Len(run.invoked) : run.invoked[i] = "select"}) = 1
        /\ calls = 1
        /\ run.category = last.selected
        /\ run.log = "failed" =>
               LET stored == StoredSeq(file, history_key("category"))
               IN  /\ file = _save_history(last.saved)
                   /\ stored # <<>>
                   /\ stored[Len(stored)] = run.category
                   /\ IsRolled(stored, StoredSeq(run.file_before, history_key("category")),
                               run.category, CATEGORY_COOLDOWN)

C23_Witness ==
    /\ JobRan
    /\ run.log = "failed"
    /\ Len(run.invoked) >= 2
    /\ StoredSeq(run.file_before, history_key("category")) # <<>>
    /\ StoredSeq(file, history_key("category")) =
           Append(StoredSeq(run.file_before, history_key("category")), run.category)

----------------------------------------------------------------------------
(* Serialized calls with one pool, from a store that does not exist yet *)

InitFromEmpty ==
    /\ file = [mode |-> "missing", text |-> <<>>]
    /\ calls = 0
    /\ trace = <<>>
    /\ PipelineIdle
    /\ \E n \in (1..MaxSmallPool) \cup {CATEGORY_COOLDOWN + 1, CATEGORY_COOLDOWN + 2} :
           last = [NoCall EXCEPT !.item_type = "category", !.all_items = Pool(n)]

CallFromEmpty ==
    /\ calls < MaxFromEmptyCalls
    /\ get_next_item(last.item_type, last.all_items, _load_history(file))
    /\ calls' = calls + 1
    /\ trace' = IF last'.outcome = "ok" THEN Append(trace, last'.selected) ELSE trace
    /\ UNCHANGED <<disk, run, procs>>

NextFromEmpty == CallFromEmpty

\* the asset histories, whose window is longer, start SeedGap calls before
\* the window fills, as in SpecCooldown
SpecFromEmpty == (InitFromEmpty \/ InitCooldown) /\ [][NextFromEmpty]_vars

NoRepeat(seq) == \A i, j \in 1..Len(seq) : i # j => seq[i] # seq[j]

(* C24: with one pool of more than cooldown-size distinct items, called one
   call at a time from an empty history, the stored history of the item type
   never holds an item twice and the fallback is never taken; a repeat enters
   a history only in a call that took the fallback, which needs a pool of at
   most cooldown-size distinct items. *)
C24_NoRepeatInHistory ==
    Returned =>
        LET stored == StoredSeq(file, LastKey)
            before == StoredSeq(last.before, LastKey)
            distinct == Cardinality(Range(last.all_items))
        IN  /\ distinct > Window => (~last.fallback /\ NoRepeat(stored))
            /\ (NoRepeat(before) /\ ~NoRepeat(stored)) =>
                   (last.fallback /\ distinct <= Window)

C24_Witness ==
    /\ Returned
    /\ Len(trace) = calls
    /\ calls > Window
    /\ Cardinality(Range(last.all_items)) > Window
    /\ Len(StoredSeq(file, LastKey)) = Window
    /\ trace[1] \notin Range(StoredSeq(file, LastKey))

C24_RepeatBySmallPool ==
    /\ Returned
    /\ last.fallback
    /\ ~NoRepeat(StoredSeq(file, LastKey))
    /\ NoRepeat(StoredSeq(last.before, LastKey))

----------------------------------------------------------------------------
(* perform_cleanup called again *)

\* the identifiers of the perform_cleanup calls before the latest one
EarlierCleanups == SubSeq(trace, 1, Len(trace) - 1)

(* C25: perform_cleanup returns normally whatever the state of its targets:
   a target that is missing or whose unlink fails is passed over and every
   other target that can be unlinked is removed; a later call with an
   identifier already cleaned removes nothing and leaves every path as it
   was. *)
C25_CleanupTolerantAndIdempotent ==
    Cleaned =>
        /\ run.raised = ""
        /\ run.ok
        /\ \A p \in Range(files_to_delete(run.unique_id)) :
               run.disk_before[p] = "file" => disk[p] = "absent"
        /\ run.unique_id \in Range(EarlierCleanups) =>
               /\ run.deleted_count = 0
               /\ disk = run.disk_before

C25_Witness ==
    /\ Cleaned
    /\ trace = <<"r1", "r1">>
    /\ disk[audio_path("r1")] = "absent"
    /\ disk[subtitles_path("r1")] = "locked"
    /\ disk[final_video_path("r1")] = "absent"
    /\ \A p \in Artifacts("r2") : disk[p] = "file"
    /\ run.deleted_count = 0
    /\ disk = run.disk_before

C25_PassedOverFailure ==
    /\ Cleaned
    /\ Len(trace) = 1
    /\ run.disk_before[audio_path(run.unique_id)] = "absent"
    /\ run.disk_before[subtitles_path(run.unique_id)] = "locked"
    /\ run.disk_before[final_video_path(run.unique_id)] = "file"
    /\ disk[final_video_path(run.unique_id)] = "absent"
    /\ run.deleted_count = 1

====
